---- MODULE Spec2Model ----
(***************************************************************************)
(* Model of the PR contributor sorter content script (src/content.js):     *)
(* the cache store, the identifier extraction, the two fetch strategies,   *)
(* the classifier and the reordering of the displayed rows.                *)
(*                                                                         *)
(* Scaling.  Times are counted in clock ticks; the 30 minute expiry is     *)
(* CacheExpiry ticks.  The capacity numbers 200/150 and the listing caps   *)
(* 10/50 are scaled down to CacheLimit/CacheKeep and MaxPRsAnon/MaxPRsAuth *)
(* keeping their order (keep < limit, anon < auth), the batch threshold 3  *)
(* to BatchThreshold (below both caps).  A listing has no more pull        *)
(* requests than the cache has room for, as a listing of at most 50 has    *)
(* in the program.  A record keeps the two fields the logic reads          *)
(* (number, author_association); created_at and user are carried opaquely  *)
(* by the program and never read.                                          *)
(***************************************************************************)
EXTENDS Integers, Sequences, FiniteSets, TLC

VARIABLES
    now,          \* Date.now(), in ticks
    engine,       \* the JavaScript engine running the script: "v8" or "spidermonkey"
    cache,        \* this.cache: a Map, as the sequence of its entries in insertion order
    stored,       \* chrome.storage.local: prCache (the JSON text, as its entry list)
    putLog,       \* history: the last setCache(WatchedKey, data) and its time
    lastOp,       \* history: the last cache operation and what it returned
    prData,       \* this.prData: a Map from pull request number to record
    sortOrder,    \* this.sortOrder
    display,      \* the rows (.js-navigation-item, .js-issue-row) of the container, in document order
    stamped,      \* the container carries data-original-order
    origOrder,    \* history: the rows' order when they were stamped
    sortLog,      \* history: the last reordering and the order before it
    pageLinks,    \* the links a[href*="/pull/"] of the page ahead of the listing
    githubToken,  \* this.githubToken is set
    extractLog,   \* history: the last allPRNumbers and the links it was computed from
    storedOrder,  \* chrome.storage.local: prSortOrder ("none" when absent)
    req,          \* the request in progress: where it waits, its order and prNumbersToFetch
    trace,        \* history: the events of the request in progress or just answered
    early         \* another call of handleSortRequest that is suspended, and its events

cacheVars == <<cache, stored, putLog, lastOp>>
sortVars == <<prData, sortOrder, display, stamped, origOrder, sortLog>>
fetchVars == <<pageLinks, githubToken, extractLog, storedOrder, req, trace, early>>
vars == <<now, engine, cacheVars, sortVars, fetchVars>>

----------------------------------------------------------------------------
(* Bounds of the exploration *)

MaxTime == 2
MaxKey == 4
WatchedKey == 1
MaxRows == 5
MaxWideRows == 7
MaxLinks == 5
MaxLinkedPR == 4
MaxRowLinks == 2
MaxOverlapPR == 2

(* Program constants *)

CacheExpiry == 2
CacheLimit == 3
CacheKeep == 2
MaxPRsAnon == 3
MaxPRsAuth == 4
BatchThreshold == 2

\* a listing shows no more pull requests than the cache has room for (in the
\* program at most 50 against 150)
MaxPR == CacheLimit

----------------------------------------------------------------------------
(* Values *)

Range(s) == {s[i] : i \in 1..Len(s)}

\* null / undefined where a record is expected
Null == [number |-> 0, author_association |-> "null"]

NewContributorStatuses == <<"FIRST_TIMER", "FIRST_TIME_CONTRIBUTOR", "NONE">>

\* GitHub's author associations, plus a missing attribute and an unknown string
AssocKinds ==
    {"FIRST_TIMER", "FIRST_TIME_CONTRIBUTOR", "NONE", "CONTRIBUTOR",
     "COLLABORATOR", "MEMBER", "OWNER", "MANNEQUIN", "undefined", "none"}

NewKindOf(n) == NewContributorStatuses[(n % 3) + 1]
OldKindOf(n) ==
    <<"CONTRIBUTOR", "MEMBER", "OWNER", "undefined", "none",
      "COLLABORATOR", "MANNEQUIN">>[(n % 7) + 1]

\* the records a fetch of pull request n may produce
RecordsOf(n) ==
    {[number |-> n, author_association |-> k] : k \in {NewKindOf(n), OldKindOf(n)}}

Engines == {"v8", "spidermonkey"}

\* no extraction yet, no request in progress
NoExtract == [done |-> FALSE, links |-> <<>>, ids |-> <<>>]
NoUrl == [github |-> FALSE, pulls |-> FALSE]
Idle == [pc |-> "idle", order |-> "default", toFetch |-> <<>>, idx |-> 0, url |-> NoUrl]
NoEarly == [req |-> Idle, trace |-> <<>>]

----------------------------------------------------------------------------
(* Array.prototype.sort, as the engines compute it.  c is the comparator  *)
(* as a function on pairs: c[<<x, y>>] is comparefn(x, y).                *)

\* V8 CountAndMakeRun: the length of the run starting at the first element;
\* idx is the next element to compare with its predecessor
RECURSIVE CountRun(_, _, _, _)
CountRun(a, c, desc, idx) ==
    IF idx > Len(a) THEN Len(a)
    ELSE LET order == c[<<a[idx], a[idx - 1]>>]
         IN  IF (desc /\ order >= 0) \/ (~desc /\ order < 0)
             THEN idx - 1
             ELSE CountRun(a, c, desc, idx + 1)

ReverseRange(a, n) ==
    [i \in 1..Len(a) |-> IF i <= n THEN a[n + 1 - i] ELSE a[i]]

\* V8 BinaryInsertionSort, the search: where pivot goes in a[left .. right-1]
RECURSIVE BinarySearch(_, _, _, _, _)
BinarySearch(a, c, pivot, left, right) ==
    IF left >= right THEN left
    ELSE LET mid == left + ((right - left) \div 2)
         IN  IF c[<<pivot, a[mid]>>] < 0
             THEN BinarySearch(a, c, pivot, left, mid)
             ELSE BinarySearch(a, c, pivot, mid + 1, right)

MoveTo(a, from, to) ==
    [i \in 1..Len(a) |->
        IF i < to \/ i > from THEN a[i]
        ELSE IF i = to THEN a[from]
        ELSE a[i - 1]]

RECURSIVE BinaryInsertionSort(_, _, _)
BinaryInsertionSort(a, c, start) ==
    IF start > Len(a) THEN a
    ELSE LET left == BinarySearch(a, c, a[start], 1, start)
         IN  BinaryInsertionSort(MoveTo(a, start, left), c, start + 1)

\* V8 ArrayTimSort for an array shorter than 64 elements: one run, extended
\* to the whole array by binary insertion
TimSortShort(a, c) ==
    LET desc == c[<<a[2], a[1]>>] < 0
        run == CountRun(a, c, desc, 3)
        b == IF desc THEN ReverseRange(a, run) ELSE a
    IN  BinaryInsertionSort(b, c, run + 1)

\* SpiderMonkey InsertionSort (arrays shorter than 24 elements), the inner
\* loop: the place of item among a[1 .. j], scanning down from j
RECURSIVE ScanDown(_, _, _, _)
ScanDown(a, c, item, j) ==
    IF j < 1 THEN 1
    ELSE IF c[<<a[j], item>>] <= 0 THEN j + 1
    ELSE ScanDown(a, c, item, j - 1)

RECURSIVE InsertionSort(_, _, _)
InsertionSort(a, c, i) ==
    IF i > Len(a) THEN a
    ELSE InsertionSort(MoveTo(a, i, ScanDown(a, c, a[i], i - 1)), c, i + 1)

ArraySort(eng, a, c) ==
    IF Len(a) < 2 THEN a
    ELSE IF eng = "v8" THEN TimSortShort(a, c)
    ELSE InsertionSort(a, c, 2)

----------------------------------------------------------------------------
(* The Map this.cache: entries [key, val] in insertion order,              *)
(* val = [data, timestamp]                                                 *)

MapKeys(m) == {m[i].key : i \in 1..Len(m)}
MapHas(m, k) == k \in MapKeys(m)
MapIndex(m, k) == CHOOSE i \in 1..Len(m) : m[i].key = k
MapGet(m, k) == m[MapIndex(m, k)].val

\* Map.prototype.set: an existing key keeps its place
MapSet(m, k, v) ==
    IF MapHas(m, k)
    THEN [m EXCEPT ![MapIndex(m, k)] = [key |-> k, val |-> v]]
    ELSE Append(m, [key |-> k, val |-> v])

MapDelete(m, k) == SelectSeq(m, LAMBDA e : e.key # k)

\* new Map(entries): a later pair with a key seen before replaces the value
RECURSIVE MapFromEntries(_, _)
MapFromEntries(es, m) ==
    IF es = <<>> THEN m
    ELSE MapFromEntries(Tail(es), MapSet(m, Head(es).key, Head(es).val))

\* JSON.stringify of one entry [key, {data, timestamp}]: a property whose
\* value is undefined is left out
StringifyEntry(e) ==
    <<e.key, e.val.data.number,
      IF e.val.data.author_association = "undefined"
      THEN <<>> ELSE <<e.val.data.author_association>>,
      e.val.timestamp>>

\* JSON.parse of one entry: a property that was left out reads as undefined
ParseEntry(t) ==
    [key |-> t[1],
     val |-> [data |-> [number |-> t[2],
                        author_association |->
                            IF t[3] = <<>> THEN "undefined" ELSE t[3][1]],
              timestamp |-> t[4]]]

JSONStringify(es) == [i \in 1..Len(es) |-> StringifyEntry(es[i])]
JSONParse(txt) == [i \in 1..Len(txt) |-> ParseEntry(txt[i])]

\* (a, b) => b[1].timestamp - a[1].timestamp
NewestFirst(es) ==
    [p \in Range(es) \X Range(es) |-> p[2].val.timestamp - p[1].val.timestamp]

\* saveCacheToStorage that trims the stored text only and forgets line 466
saveWithoutMapReset(eng, m) ==
    LET entries == IF Len(m) > CacheLimit
                   THEN SubSeq(ArraySort(eng, m, NewestFirst(m)), 1, CacheKeep)
                   ELSE m
    IN  [cache |-> m,
         stored |-> [present |-> TRUE, text |-> JSONStringify(entries)]]

\* saveCacheToStorage on cache m: the cache and the stored text afterwards
saveCacheToStorage(eng, m) ==
    LET entries == IF Len(m) > CacheLimit
                   THEN SubSeq(ArraySort(eng, m, NewestFirst(m)), 1, CacheKeep)
                   ELSE m
    IN  [cache |-> IF Len(m) > CacheLimit THEN MapFromEntries(entries, <<>>) ELSE m,
         stored |-> [present |-> TRUE, text |-> JSONStringify(entries)]]

\* setCache(prNumber, data) at time t
setCache(eng, m, k, data, t) ==
    saveCacheToStorage(eng, MapSet(m, k, [data |-> data, timestamp |-> t]))

\* the freshness test with <= for <
IsFreshInclusive(val, t) == t - val.timestamp <= CacheExpiry

\* the freshness test of getFromCache
IsFresh(val, t) == t - val.timestamp < CacheExpiry

\* getFromCache(prNumber) at time t: the value returned, the cache and the
\* stored text afterwards
getFromCache(eng, m, st, k, t) ==
    IF MapHas(m, k) /\ IsFresh(MapGet(m, k), t)
    THEN [ret |-> MapGet(m, k).data, cache |-> m, stored |-> st]
    ELSE IF MapHas(m, k)
    THEN LET s == saveCacheToStorage(eng, MapDelete(m, k))
         IN  [ret |-> Null, cache |-> s.cache, stored |-> s.stored]
    ELSE [ret |-> Null, cache |-> m, stored |-> st]

\* the expiry test with > for >=
IsExpiredStrict(val, t) == t - val.timestamp > CacheExpiry

\* the expiry test of clearExpiredCache
IsExpired(val, t) == t - val.timestamp >= CacheExpiry

\* clearExpiredCache that deletes and does not save
clearExpiredUnsaved(eng, m, st, t) ==
    [cache |-> SelectSeq(m, LAMBDA e : ~IsExpired(e.val, t)), stored |-> st]

\* clearExpiredCache() at time t
clearExpiredCache(eng, m, st, t) ==
    LET kept == SelectSeq(m, LAMBDA e : ~IsExpired(e.val, t))
    IN  IF Len(kept) < Len(m)
        THEN saveCacheToStorage(eng, kept)
        ELSE [cache |-> m, stored |-> st]

\* loadSettings, the prCache part: the cache after a page load
loadCache(m, st) ==
    IF st.present THEN MapFromEntries(JSONParse(st.text), <<>>) ELSE m

----------------------------------------------------------------------------
(* The cache store on its own: every operation at every time *)

\* History is kept for one key, WatchedKey: the cache compares keys for
\* equality only, so the keys are interchangeable.
NoPut == [data |-> Null, t |-> -1]
NoOp == [op |-> "init", key |-> 0, ret |-> Null, pre |-> <<>>, deleted |-> 0]

\* the key as the history records it
Watch(k) == IF k = WatchedKey THEN k ELSE 0

\* what setCache may be given for key k
CacheInputs(k) ==
    IF k = WatchedKey THEN RecordsOf(k)
    ELSE {[number |-> k, author_association |-> OldKindOf(k)]}

\* the entries handed to saveCacheToStorage when they are over the capacity
OverCapacity(m) == IF Len(m) > CacheLimit THEN m ELSE <<>>

\* the log once the cache went from before to after by an operation on key k:
\* the watched entry is forgotten when another key's operation dropped it
LogAfter(log, before, after, k) ==
    IF k # WatchedKey /\ MapHas(before, WatchedKey) /\ ~MapHas(after, WatchedKey)
    THEN NoPut ELSE log

InitCache ==
    /\ now = 0
    /\ engine \in Engines
    /\ cache = <<>>
    /\ stored = [present |-> FALSE, text |-> <<>>]
    /\ putLog = NoPut
    /\ lastOp = NoOp
    /\ prData = <<>>
    /\ sortOrder = "default"
    /\ display = <<>>
    /\ stamped = FALSE
    /\ origOrder = <<>>
    /\ sortLog = [op |-> "none", before |-> <<>>]
    /\ pageLinks = <<>>
    /\ githubToken = FALSE
    /\ extractLog = NoExtract
    /\ storedOrder = "none"
    /\ req = Idle
    /\ trace = <<>>
    /\ early = NoEarly

\* the clock moves on by a tick, of which the 500 ms between two requests
\* are no part
Tick ==
    /\ now < MaxTime
    /\ req.pc \notin {"delay", "done"}
    /\ now' = now + 1
    /\ lastOp' = [NoOp EXCEPT !.op = "tick"]
    /\ UNCHANGED <<engine, cache, stored, putLog, sortVars, fetchVars>>

SetCacheOp ==
    \E k \in 1..MaxKey : \E d \in CacheInputs(k) :
        LET s == setCache(engine, cache, k, d, now)
            entry == [data |-> d, timestamp |-> now]
        IN  /\ cache' = s.cache
            /\ stored' = s.stored
            /\ putLog' = IF k = WatchedKey /\ MapHas(s.cache, k)
                         THEN [data |-> d, t |-> now]
                         ELSE LogAfter(putLog, cache, s.cache, k)
            /\ lastOp' = [op |-> "set", key |-> Watch(k), ret |-> Null,
                          pre |-> OverCapacity(MapSet(cache, k, entry)),
                          deleted |-> 0]
            /\ UNCHANGED <<now, engine, sortVars, fetchVars>>

GetFromCacheOp ==
    \E k \in 1..MaxKey :
        LET g == getFromCache(engine, cache, stored, k, now)
        IN  /\ cache' = g.cache
            /\ stored' = g.stored
            /\ putLog' = LogAfter(putLog, cache, g.cache, k)
            /\ lastOp' = [op |-> "get", key |-> Watch(k),
                          ret |-> IF k = WatchedKey THEN g.ret ELSE Null,
                          pre |-> OverCapacity(MapDelete(cache, k)),
                          deleted |-> 0]
            /\ UNCHANGED <<now, engine, sortVars, fetchVars>>

\* clearExpiredCache; the history keeps its deletedCount
ClearExpiredOp ==
    LET s == clearExpiredCache(engine, cache, stored, now)
    IN  /\ cache' = s.cache
        /\ stored' = s.stored
        /\ lastOp' = [op |-> "sweep", key |-> 0, ret |-> Null, pre |-> <<>>,
                      deleted |-> Len(cache) - Len(s.cache)]
        /\ UNCHANGED <<now, engine, putLog, sortVars, fetchVars>>

\* a page load: a new PRSorter whose cache is read back from storage
LoadSettingsOp ==
    /\ cache' = loadCache(<<>>, stored)
    /\ lastOp' = [op |-> "load", key |-> 0, ret |-> Null, pre |-> <<>>,
                  deleted |-> 0]
    /\ UNCHANGED <<now, engine, stored, putLog, sortVars, fetchVars>>

NextCache ==
    \/ Tick
    \/ SetCacheOp
    \/ GetFromCacheOp
    \/ ClearExpiredOp
    \/ LoadSettingsOp

SpecCache == InitCache /\ [][NextCache]_vars

\* Date.now() is the time of the system clock, which may be set back (a
\* correction of a clock that was ahead)
ClockSetBack ==
    /\ now > 0
    /\ now' = now - 1
    /\ lastOp' = [NoOp EXCEPT !.op = "clock"]
    /\ UNCHANGED <<engine, cache, stored, putLog, sortVars, fetchVars>>

NextCacheSkew ==
    \/ NextCache
    \/ ClockSetBack

\* the cache store under a clock that may be set back
SpecCacheSkew == InitCache /\ [][NextCacheSkew]_vars

----------------------------------------------------------------------------
(* Claims about the cache store *)

\* C1: a getFromCache(i) after setCache(i, r) at time t returns r while
\* now - t < CacheExpiry (the entry neither overwritten nor evicted since);
\* from now - t >= CacheExpiry on it returns null and the entry is gone from
\* the cache.
C1_GetAfterPut ==
    (lastOp.op = "get" /\ lastOp.key = WatchedKey /\ putLog.t >= 0) =>
        IF now - putLog.t < CacheExpiry
        THEN lastOp.ret = putLog.data /\ MapHas(cache, WatchedKey)
        ELSE lastOp.ret = Null /\ ~MapHas(cache, WatchedKey)

\* C1 witness: a get of an entry put CacheExpiry or more ago returned null
C1_Witness ==
    /\ lastOp.op = "get" /\ lastOp.key = WatchedKey
    /\ putLog.t >= 0 /\ now - putLog.t >= CacheExpiry
    /\ lastOp.ret = Null

\* C2: the cache never holds more than CacheLimit entries, and a save that
\* was handed more collapses it to exactly the CacheKeep entries with the
\* most recent timestamps.
C2_Capacity ==
    /\ Len(cache) <= CacheLimit
    /\ lastOp.pre # <<>> =>
        /\ Len(cache) = CacheKeep
        /\ Range(cache) \subseteq Range(lastOp.pre)
        /\ \A e \in Range(cache) : \A d \in Range(lastOp.pre) \ Range(cache) :
               e.val.timestamp >= d.val.timestamp

\* C2 witness: a collapse that dropped an entry still within its expiry
C2_Witness ==
    /\ lastOp.pre # <<>>
    /\ Len(cache) = CacheKeep
    /\ \E d \in Range(lastOp.pre) \ Range(cache) : now - d.val.timestamp < CacheExpiry

----------------------------------------------------------------------------
(* Links and rows.  A link a[href*="/pull/"] is kept as the digits that    *)
(* follow "/pull/" in its href (none when no digit follows); a row is     *)
(* [hrefs, orig, badge]: its links in document order, its                 *)
(* data-original-index (-1 without the attribute) and its badge.          *)

NoElement == <<-1>>

\* parseInt of a string of decimal digits
RECURSIVE ParseInt(_)
ParseInt(ds) ==
    IF ds = <<>> THEN 0
    ELSE 10 * ParseInt(SubSeq(ds, 1, Len(ds) - 1)) + ds[Len(ds)]

\* extractPRNumber(prElement): 0 stands for null
extractPRNumber(el) ==
    IF el # NoElement /\ el # <<>> THEN ParseInt(el) ELSE 0

\* prElement.querySelector('a[href*="/pull/"]')
FirstLink(row) == IF row.hrefs = <<>> THEN NoElement ELSE row.hrefs[1]

RowNumber(row) == extractPRNumber(FirstLink(row))

\* a row of pull request n as GitHub renders it, untouched by the script
FreshRow(n) == [hrefs |-> <<<<n>>>>, orig |-> -1, badge |-> "none"]

\* this.prData as a function on the numbers it holds
PrHas(pd, n) == n \in DOMAIN pd
PrGet(pd, n) == IF n \in DOMAIN pd THEN pd[n] ELSE Null
PrSet(pd, n, rec) == [x \in DOMAIN pd \cup {n} |-> IF x = n THEN rec ELSE pd[x]]

----------------------------------------------------------------------------
(* Classifier and badges *)

RECURSIVE Includes(_, _)
Includes(list, x) ==
    IF list = <<>> THEN FALSE
    ELSE Head(list) = x \/ Includes(Tail(list), x)

\* getContributorPriority without 'NONE' in its list
getContributorPriorityShortList(authorAssociation) ==
    IF Includes(<<"FIRST_TIMER", "FIRST_TIME_CONTRIBUTOR">>, authorAssociation)
    THEN 1 ELSE 2

getContributorPriority(authorAssociation) ==
    IF Includes(NewContributorStatuses, authorAssociation) THEN 1 ELSE 2

\* createContributorBadge: the class of the badge
BadgeNewStatuses == <<"FIRST_TIMER", "FIRST_TIME_CONTRIBUTOR", "NONE">>
createContributorBadge(authorAssociation) ==
    IF Includes(BadgeNewStatuses, authorAssociation) THEN "new" ELSE "existing"

\* addContributorBadges over the rows
addContributorBadges(rows, pd) ==
    [i \in 1..Len(rows) |->
        IF PrGet(pd, RowNumber(rows[i])) # Null /\ rows[i].badge = "none"
        THEN [rows[i] EXCEPT
                 !.badge = createContributorBadge(
                               PrGet(pd, RowNumber(rows[i])).author_association)]
        ELSE rows[i]]

----------------------------------------------------------------------------
(* Orderer *)

\* the comparator of applySorting
SortCompare(rows, pd, order) ==
    [p \in Range(rows) \X Range(rows) |->
        LET dataA == PrGet(pd, RowNumber(p[1]))
            dataB == PrGet(pd, RowNumber(p[2]))
            priorityA == getContributorPriority(dataA.author_association)
            priorityB == getContributorPriority(dataB.author_association)
        IN  IF dataA = Null \/ dataB = Null THEN 0
            ELSE IF order = "new-first" THEN priorityA - priorityB
            ELSE priorityB - priorityA]

\* the guard of the stamping that stamps on every call
NeedsStampAlways(flag) == TRUE

\* the guard of the stamping in applySorting
NeedsStamp(flag) == ~flag

StampRows(rows) == [i \in 1..Len(rows) |-> [rows[i] EXCEPT !.orig = i - 1]]

\* applySorting that stamps the rows on every call
applySortingRestamping(eng, rows, flag, pd, order) ==
    IF rows = <<>> THEN [display |-> rows, stamped |-> flag]
    ELSE LET marked == StampRows(rows)
         IN  [display |-> addContributorBadges(
                              ArraySort(eng, marked, SortCompare(marked, pd, order)), pd),
              stamped |-> TRUE]

\* applySorting(): the rows and the container attribute afterwards
applySorting(eng, rows, flag, pd, order) ==
    IF rows = <<>> THEN [display |-> rows, stamped |-> flag]
    ELSE LET marked == IF NeedsStamp(flag) THEN StampRows(rows) ELSE rows
             sorted == ArraySort(eng, marked, SortCompare(marked, pd, order))
         IN  [display |-> addContributorBadges(sorted, pd), stamped |-> TRUE]

\* a row without the attribute counted as the last one
OriginalIndexLast(row) == IF row.orig < 0 THEN MaxWideRows ELSE row.orig

\* parseInt(a.getAttribute('data-original-index') || '0')
OriginalIndex(row) == IF row.orig < 0 THEN 0 ELSE row.orig

\* the comparator of restoreDefaultOrder
RestoreCompare(rows) ==
    [p \in Range(rows) \X Range(rows) |-> OriginalIndex(p[1]) - OriginalIndex(p[2])]

\* restoreDefaultOrder that leaves the rows where they are
restoreDefaultOrderKeep(eng, rows) == rows

\* restoreDefaultOrder(): the rows afterwards
restoreDefaultOrder(eng, rows) == ArraySort(eng, rows, RestoreCompare(rows))

----------------------------------------------------------------------------
(* The orderer on its own: a listing with any records, sorted and restored *)

RowIds(rows) == [i \in 1..Len(rows) |-> RowNumber(rows[i])]

\* the records the record map may hold for pull request n
RecordChoices(n) == {Null} \cup RecordsOf(n)

MapOfChoices(f) == [n \in {m \in DOMAIN f : f[m] # Null} |-> f[n]]

InitRows(maxRows) ==
    /\ now = 0
    /\ engine \in Engines
    /\ cache = <<>>
    /\ stored = [present |-> FALSE, text |-> <<>>]
    /\ putLog = NoPut
    /\ lastOp = NoOp
    /\ \E n \in 0..maxRows :
        /\ display = [i \in 1..n |-> FreshRow(i)]
        /\ \E f \in [1..n -> {"none", "new", "old"}] :
             prData = MapOfChoices(
                 [i \in 1..n |->
                     IF f[i] = "none" THEN Null
                     ELSE [number |-> i,
                           author_association |->
                               IF f[i] = "new" THEN NewKindOf(i) ELSE OldKindOf(i)]])
    /\ sortOrder = "default"
    /\ stamped = FALSE
    /\ origOrder = <<>>
    /\ sortLog = [op |-> "none", before |-> <<>>]
    /\ pageLinks = <<>>
    /\ githubToken = FALSE
    /\ extractLog = NoExtract
    /\ storedOrder = "none"
    /\ req = Idle
    /\ trace = <<>>
    /\ early = NoEarly

InitSort == InitRows(MaxRows)

ApplySortingOp ==
    \E order \in {"new-first", "existing-first"} :
        LET r == applySorting(engine, display, stamped, prData, order)
        IN  /\ sortOrder' = order
            /\ display' = r.display
            /\ stamped' = r.stamped
            /\ origOrder' = IF ~stamped /\ r.stamped THEN RowIds(display) ELSE origOrder
            /\ sortLog' = [op |-> "sort", before |-> RowIds(display)]
            /\ UNCHANGED <<now, engine, cacheVars, prData, fetchVars>>

RestoreDefaultOp ==
    /\ sortOrder' = "default"
    /\ display' = restoreDefaultOrder(engine, display)
    /\ sortLog' = [op |-> "restore", before |-> RowIds(display)]
    /\ UNCHANGED <<now, engine, cacheVars, prData, stamped, origOrder, fetchVars>>

\* the page adds a row to the listing
AddRowOp ==
    /\ Len(display) < MaxRows
    /\ display' = Append(display, FreshRow(Len(display) + 1))
    /\ sortLog' = [op |-> "add", before |-> RowIds(display)]
    /\ UNCHANGED <<now, engine, cacheVars, prData, sortOrder, stamped, origOrder, fetchVars>>

NextSort ==
    \/ ApplySortingOp
    \/ RestoreDefaultOp
    \/ AddRowOp

SpecSort == InitSort /\ [][NextSort]_vars

\* the same with longer listings and no row added
InitSortWide == InitRows(MaxWideRows)

NextSortWide ==
    \/ ApplySortingOp
    \/ RestoreDefaultOp

SpecSortWide == InitSortWide /\ [][NextSortWide]_vars

----------------------------------------------------------------------------
(* Claims about the orderer and the classifier *)

\* the tier of an association kind, as the specification words it
TierOf(kind) ==
    IF kind \in {"FIRST_TIMER", "FIRST_TIME_CONTRIBUTOR", "NONE"} THEN 1 ELSE 2

Available(n) == PrHas(prData, n)
TierOfRow(n) == TierOf(prData[n].author_association)
PlaceOf(ids, n) == CHOOSE i \in 1..Len(ids) : ids[i] = n

\* C3: after any applySorting calls, restoreDefaultOrder puts rows that were
\* all stamped together back in the order they had when they were stamped.
C3_RoundTrip ==
    (/\ sortLog.op = "restore"
     /\ stamped
     /\ \A i \in 1..Len(display) : display[i].orig >= 0)
        => RowIds(display) = origOrder

\* C3 witness: a restore that undid a reordering of a listing in which a row
\* has no record
C3_Witness ==
    /\ sortLog.op = "restore"
    /\ stamped
    /\ sortLog.before # RowIds(display)
    /\ RowIds(display) = origOrder
    /\ \E i \in 1..Len(display) : ~Available(RowNumber(display[i]))

\* C4: after applySorting every row with an available tier-1 record precedes
\* every row with an available tier-2 record under new-first, and follows it
\* under existing-first, whatever rows lack a record.
C4_TierOrder ==
    sortLog.op = "sort" =>
        \A i, j \in 1..Len(display) :
            LET a == RowNumber(display[i])
                b == RowNumber(display[j])
            IN  (i < j /\ Available(a) /\ Available(b)) =>
                    IF sortOrder = "new-first"
                    THEN TierOfRow(a) <= TierOfRow(b)
                    ELSE TierOfRow(a) >= TierOfRow(b)

\* C5: applySorting keeps the relative order of any two rows whose records
\* are available and of the same tier, whatever rows lack a record.
C5_Stable ==
    sortLog.op = "sort" =>
        \A i, j \in 1..Len(sortLog.before) :
            LET a == sortLog.before[i]
                b == sortLog.before[j]
            IN  (i < j /\ Available(a) /\ Available(b) /\ TierOfRow(a) = TierOfRow(b))
                    => PlaceOf(RowIds(display), a) < PlaceOf(RowIds(display), b)

\* C6: getContributorPriority is 1 exactly for FIRST_TIMER,
\* FIRST_TIME_CONTRIBUTOR and NONE and 2 for every other value (a missing or
\* unknown one included), and the badge of a value, also of every badge on
\* display, is the "new" one exactly when the tier is 1.
C6_Classifier ==
    /\ \A k \in AssocKinds :
        /\ getContributorPriority(k) = TierOf(k)
        /\ createContributorBadge(k) = IF TierOf(k) = 1 THEN "new" ELSE "existing"
    /\ \A i \in 1..Len(display) :
        display[i].badge # "none" =>
            /\ Available(RowNumber(display[i]))
            /\ display[i].badge =
                   IF getContributorPriority(
                          prData[RowNumber(display[i])].author_association) = 1
                   THEN "new" ELSE "existing"

\* C6 witness: badges on display for NONE (new), for a missing attribute and
\* for an unknown value (existing)
C6_Witness ==
    /\ \E i \in 1..Len(display) :
        /\ display[i].badge = "new"
        /\ prData[RowNumber(display[i])].author_association = "NONE"
    /\ \E i \in 1..Len(display) :
        /\ display[i].badge = "existing"
        /\ prData[RowNumber(display[i])].author_association = "undefined"
    /\ \E i \in 1..Len(display) :
        /\ display[i].badge = "existing"
        /\ prData[RowNumber(display[i])].author_association = "none"

----------------------------------------------------------------------------
(* Identifier extraction: fetchPRData, lines 90-101 *)

\* the links of the rows in document order
RECURSIVE RowLinks(_)
RowLinks(rows) ==
    IF rows = <<>> THEN <<>> ELSE Head(rows).hrefs \o RowLinks(Tail(rows))

\* document.querySelectorAll('a[href*="/pull/"]'): the links ahead of the
\* listing, then the links of its rows
DocLinks(ahead, rows) == ahead \o RowLinks(rows)

MaxPRs(token) == IF token THEN MaxPRsAuth ELSE MaxPRsAnon

\* Array.prototype.slice(0, n)
Slice(s, n) == SubSeq(s, 1, IF Len(s) < n THEN Len(s) ELSE n)

\* limitedElements.map(el => this.extractPRNumber(el)).filter(num => num)
AllPRNumbers(links, token) ==
    LET limitedElements == Slice(links, MaxPRs(token))
        numbers == [i \in 1..Len(limitedElements) |->
                        extractPRNumber(limitedElements[i])]
    IN  SelectSeq(numbers, LAMBDA num : num # 0)

----------------------------------------------------------------------------
(* The extraction on its own: any links, with and without a token *)

\* a link without a number after /pull/, and the links of pull requests
Hrefs == {<<>>} \cup {<<n>> : n \in 1..MaxLinkedPR}

LinkLists == UNION {[1..n -> Hrefs] : n \in 0..MaxLinks}

InitExtract ==
    /\ now = 0
    /\ engine \in Engines
    /\ cache = <<>>
    /\ stored = [present |-> FALSE, text |-> <<>>]
    /\ putLog = NoPut
    /\ lastOp = NoOp
    /\ prData = <<>>
    /\ sortOrder = "default"
    /\ display = <<>>
    /\ stamped = FALSE
    /\ origOrder = <<>>
    /\ sortLog = [op |-> "none", before |-> <<>>]
    /\ pageLinks \in LinkLists
    /\ githubToken \in BOOLEAN
    /\ extractLog = NoExtract
    /\ storedOrder = "none"
    /\ req = Idle
    /\ trace = <<>>
    /\ early = NoEarly

ExtractOp ==
    LET links == DocLinks(pageLinks, display)
    IN  /\ extractLog' = [done |-> TRUE, links |-> links,
                          ids |-> AllPRNumbers(links, githubToken)]
        /\ UNCHANGED <<now, engine, cacheVars, sortVars, pageLinks, githubToken, early,
                       storedOrder, req, trace>>

NextExtract ==
    \/ ExtractOp

SpecExtract == InitExtract /\ [][NextExtract]_vars

----------------------------------------------------------------------------
(* Claims about the extraction *)

\* the well-formed identifiers of the links, in order
WellFormed(links) ==
    SelectSeq([i \in 1..Len(links) |-> extractPRNumber(links[i])],
              LAMBDA num : num # 0)

\* a sequence without its repeated elements, first occurrences kept
RECURSIVE Deduplicated(_)
Deduplicated(s) ==
    IF s = <<>> THEN <<>>
    ELSE LET front == Deduplicated(SubSeq(s, 1, Len(s) - 1))
         IN  IF s[Len(s)] \in Range(front) THEN front
             ELSE Append(front, s[Len(s)])

FirstPlace(s, x) == CHOOSE i \in 1..Len(s) : s[i] = x /\ \A j \in 1..(i - 1) : s[j] # x

\* C7: the identifier sequence fetchPRData computes holds no identifier
\* twice, and its identifiers stand in the order of their first occurrence
\* among the links.
C7_UniqueFirstSeen ==
    extractLog.done =>
        LET ids == extractLog.ids
            seen == WellFormed(extractLog.links)
        IN  \A i, j \in 1..Len(ids) :
                i < j => /\ ids[i] # ids[j]
                         /\ FirstPlace(seen, ids[i]) < FirstPlace(seen, ids[j])

\* C8: the identifier sequence fetchPRData computes is the first MaxPRs
\* (MaxPRsAuth with a token, MaxPRsAnon without) elements of the deduplicated
\* well-formed identifiers of the links: a link without a number takes no
\* part of the cap.
C8_Cap ==
    extractLog.done =>
        extractLog.ids =
            Slice(Deduplicated(WellFormed(extractLog.links)), MaxPRs(githubToken))

----------------------------------------------------------------------------
(* The fetch strategies and the request handler *)

\* an event of the run of one request
Ev(ev, ids, ok, msg) == [ev |-> ev, ids |-> ids, ok |-> ok, msg |-> msg]

\* the record GitHub serves for pull request n (fetchPRDetails' return value,
\* the processedData of fetchPRDataGraphQL)
ServerRecord(n) ==
    [number |-> n,
     author_association |-> IF n % 2 = 1 THEN NewKindOf(n) ELSE OldKindOf(n)]

\* the loop "load cached data first" of fetchPRData over ids at time t
RECURSIVE LoadCached(_, _, _, _, _, _)
LoadCached(eng, m, st, pd, ids, t) ==
    IF ids = <<>> THEN [cache |-> m, stored |-> st, prData |-> pd]
    ELSE IF PrHas(pd, Head(ids)) THEN LoadCached(eng, m, st, pd, Tail(ids), t)
    ELSE LET g == getFromCache(eng, m, st, Head(ids), t)
         IN  LoadCached(eng, g.cache, g.stored,
                        IF g.ret # Null THEN PrSet(pd, Head(ids), g.ret) ELSE pd,
                        Tail(ids), t)

\* prNumbersToFetch without the filter of line 114
ToFetchAll(all, pd) == all

\* prNumbersToFetch
ToFetch(all, pd) == SelectSeq(all, LAMBDA num : ~PrHas(pd, num))

\* the choice of the strategy in fetchPRData
UseBatch(token, toFetch) == token /\ Len(toFetch) > BatchThreshold

\* the answers to the GraphQL request for n pull requests: a transport
\* failure, or an answer with or without an error list whose data holds a
\* result for the aliases pr(i-1), i in has
GraphQLReplies(n) ==
    {[ok |-> FALSE, errors |-> FALSE, has |-> {}]}
        \cup {[ok |-> TRUE, errors |-> e, has |-> h] : e \in BOOLEAN, h \in SUBSET (1..n)}

\* the batch failed: a transport failure or an error list
BatchFailed(reply) == ~reply.ok \/ reply.errors

ReplyKind(reply) ==
    IF ~reply.ok THEN "notOk"
    ELSE IF reply.errors THEN (IF reply.has = {} THEN "errors" ELSE "errors+data")
    ELSE "data"

\* fetchPRDataGraphQL that does not look at result.errors
GraphQLThrowsOnStatus(reply) == ~reply.ok

\* fetchPRDataGraphQL throws before it processes anything
GraphQLThrows(reply) == ~reply.ok \/ reply.errors

\* the identifiers of ids at the indices has: those whose sub-query has a
\* result in the reply
SubResultIds(ids, has) ==
    LET F[i \in 0..Len(ids)] ==
            IF i = 0 THEN <<>>
            ELSE IF i \in has THEN Append(F[i - 1], ids[i]) ELSE F[i - 1]
    IN  F[Len(ids)]

\* the forEach that fills the record map and leaves the cache alone
RECURSIVE ProcessResultsUncached(_, _, _, _, _, _, _, _)
ProcessResultsUncached(eng, m, st, pd, ids, has, i, t) ==
    IF i > Len(ids) THEN [cache |-> m, stored |-> st, prData |-> pd]
    ELSE ProcessResultsUncached(eng, m, st,
             IF i \in has THEN PrSet(pd, ids[i], ServerRecord(ids[i])) ELSE pd,
             ids, has, i + 1, t)

\* the forEach of fetchPRDataGraphQL from index i on, at time t
RECURSIVE ProcessResults(_, _, _, _, _, _, _, _)
ProcessResults(eng, m, st, pd, ids, has, i, t) ==
    IF i > Len(ids) THEN [cache |-> m, stored |-> st, prData |-> pd]
    ELSE IF i \in has
    THEN LET s == setCache(eng, m, ids[i], ServerRecord(ids[i]), t)
         IN  ProcessResults(eng, s.cache, s.stored,
                            PrSet(pd, ids[i], ServerRecord(ids[i])), ids, has, i + 1, t)
    ELSE ProcessResults(eng, m, st, pd, ids, has, i + 1, t)

\* history: the identifiers of ids with a record in the record map pd2 or an
\* entry in the cache m2 that pd1 and m1 did not hold
NewlyStored(ids, pd1, m1, pd2, m2) ==
    SelectSeq(ids, LAMBDA n :
        \/ PrHas(pd2, n) /\ ~PrHas(pd1, n)
        \/ MapHas(m2, n) /\ (~MapHas(m1, n) \/ MapGet(m2, n) # MapGet(m1, n)))

\* the loop of fetchPRDataREST from index i up to its next request, at time
\* t: a number found in the cache is taken from there
RECURSIVE RestLoop(_, _, _, _, _, _, _)
RestLoop(eng, m, st, pd, ids, i, t) ==
    IF i > Len(ids) THEN [cache |-> m, stored |-> st, prData |-> pd, idx |-> i]
    ELSE LET g == getFromCache(eng, m, st, ids[i], t)
         IN  IF g.ret # Null
             THEN RestLoop(eng, g.cache, g.stored, PrSet(pd, ids[i], g.ret),
                           ids, i + 1, t)
             ELSE [cache |-> g.cache, stored |-> g.stored, prData |-> pd, idx |-> i]

\* the message of the Error fetchPRDetails throws for a status that is not
\* OK, in the pieces the tests on it look for
DetailsError(status) ==
    IF status = "403"
    THEN <<"GitHub API ", "rate limit", " exceeded (", "403",
           "). Add a GitHub token for unlimited requests.">>
    ELSE <<"GitHub API error: ", status, " - ">>

\* the catch of fetchPRDataREST that goes on after every failure
IsRateLimitNever(status) == FALSE

\* the catch of fetchPRDataREST that gives up after every failure
IsRateLimitAlways(status) == TRUE

\* error.message.includes('403') in the catch of fetchPRDataREST
IsRateLimit(status) == Includes(DetailsError(status), "403")

\* the message of the Error fetchPRDataREST throws
RateLimitError ==
    <<"GitHub API ", "rate limit",
      " exceeded. Please add a GitHub token for unlimited requests.">>

\* the message of the response that the history calls msg
ResponseMessage(msg) ==
    IF msg = "wrong page" THEN <<"Not on a GitHub pull requests page">>
    ELSE IF msg = "restored" THEN <<"Restored to default order">>
    ELSE IF msg = "rate limit" THEN <<"Error sorting PRs: ">> \o RateLimitError
    ELSE <<"Sorted by ",
           IF msg = "new-first" THEN "new contributors" ELSE "existing contributors",
           " successfully!">>

\* errorMessage.includes('rate limit') of the popup's triggerSort
SuggestsToken(message) == Includes(message, "rate limit")

\* a handleSortRequest that returns without calling sendResponse
RespondNever(rq, tr, ok, msg) ==
    /\ trace' = tr
    /\ req' = [Idle EXCEPT !.pc = "done", !.order = rq.order, !.url = rq.url]

\* sendResponse, the last thing the call rq of handleSortRequest does before
\* it returns
Respond(rq, tr, ok, msg) ==
    /\ trace' = Append(tr, Ev("respond", <<>>, ok, msg))
    /\ req' = [Idle EXCEPT !.pc = "done", !.order = rq.order, !.url = rq.url]

\* handleSortRequest once fetchPRData has returned with the record map pd
SortAndRespond(pd, order, rq, tr) ==
    LET r == applySorting(engine, display, stamped, pd, order)
    IN  /\ display' = r.display
        /\ stamped' = r.stamped
        /\ origOrder' = IF ~stamped /\ r.stamped THEN RowIds(display) ELSE origOrder
        /\ sortLog' = [op |-> "sort", before |-> RowIds(display)]
        /\ Respond(rq, tr, TRUE, rq.order)

\* the run of request rq once the loop of fetchPRDataREST has got to r
AfterRestLoop(r, rq, order, tr) ==
    /\ cache' = r.cache
    /\ stored' = r.stored
    /\ prData' = r.prData
    /\ IF r.idx > Len(rq.toFetch)
       THEN SortAndRespond(r.prData, order, rq, tr)
       ELSE /\ req' = [rq EXCEPT !.pc = "rest", !.idx = r.idx]
            /\ trace' = Append(tr, Ev("request", <<rq.toFetch[r.idx]>>, TRUE, ""))
            /\ UNCHANGED <<display, stamped, origOrder, sortLog>>

----------------------------------------------------------------------------
(* The content script on a listing: one request at a time *)

\* row n of the listing with k links to its pull request
ListingRow(n, k) == [hrefs |-> [i \in 1..k |-> <<n>>], orig |-> -1, badge |-> "none"]

\* the listing as GitHub renders it anew
Rendered(rows) ==
    [n \in 1..Len(rows) |->
        LET row == CHOOSE r \in Range(rows) : RowNumber(r) = n
        IN  [row EXCEPT !.orig = -1, !.badge = "none"]]

Init ==
    /\ now = 0
    /\ engine \in Engines
    /\ cache = <<>>
    /\ stored = [present |-> FALSE, text |-> <<>>]
    /\ putLog = NoPut
    /\ lastOp = NoOp
    /\ prData = <<>>
    /\ sortOrder = "default"
    /\ \E n \in 0..MaxPR : \E k \in 1..MaxRowLinks :
           display = [i \in 1..n |-> ListingRow(i, k)]
    /\ stamped = FALSE
    /\ origOrder = <<>>
    /\ sortLog = [op |-> "none", before |-> <<>>]
    /\ pageLinks = <<>>
    /\ githubToken \in BOOLEAN
    /\ extractLog = NoExtract
    /\ storedOrder = "none"
    /\ req = Idle
    /\ trace = <<>>
    /\ early = NoEarly

\* message.sortOrder, as the popup sends it
Orders == {"default", "new-first", "existing-first"}

\* window.location.href, as the two tests of handleSortRequest see it: a
\* listing of pull requests, another page of GitHub, a page of another site
Urls ==
    {[github |-> TRUE, pulls |-> TRUE], [github |-> TRUE, pulls |-> FALSE],
     [github |-> FALSE, pulls |-> TRUE]}

\* the page test that never fails
IsListingPageAlways(url) == TRUE

\* the page test of handleSortRequest
IsListingPage(url) == url.github /\ url.pulls

\* handleSortRequest away from a pull request listing
WrongPageRequest ==
    /\ req.pc = "idle"
    /\ \E order \in Orders, url \in Urls :
        /\ ~IsListingPage(url)
        /\ Respond([Idle EXCEPT !.order = order, !.url = url], <<>>, FALSE, "wrong page")
    /\ UNCHANGED <<now, engine, cacheVars, sortVars, pageLinks, githubToken, early,
                   extractLog, storedOrder>>

\* handleSortRequest('default')
RestoreRequest ==
    /\ req.pc = "idle"
    /\ \E url \in Urls :
        /\ IsListingPage(url)
        /\ Respond([Idle EXCEPT !.url = url], <<>>, TRUE, "restored")
    /\ sortOrder' = "default"
    /\ storedOrder' = "default"
    /\ display' = restoreDefaultOrder(engine, display)
    /\ sortLog' = [op |-> "restore", before |-> RowIds(display)]
    /\ UNCHANGED <<now, engine, cacheVars, prData, stamped, origOrder, pageLinks,
                   githubToken, early, extractLog>>

\* handleSortRequest(order) up to the first await of fetchPRData, or to the
\* response when nothing is to be fetched
SortRequest ==
    /\ req.pc = "idle"
    /\ \E order \in {"new-first", "existing-first"}, url \in Urls :
        LET sw == clearExpiredCache(engine, cache, stored, now)
            links == DocLinks(pageLinks, display)
            all == AllPRNumbers(links, githubToken)
            ld == LoadCached(engine, sw.cache, sw.stored, prData, all, now)
            toFetch == ToFetch(all, ld.prData)
            rq == [pc |-> "graphql", order |-> order, toFetch |-> toFetch, idx |-> 0,
                   url |-> url]
        IN  /\ IsListingPage(url)
            /\ sortOrder' = order
            /\ storedOrder' = order
            /\ extractLog' = [done |-> TRUE, links |-> links, ids |-> all]
            /\ IF toFetch = <<>>
               THEN /\ cache' = ld.cache
                    /\ stored' = ld.stored
                    /\ prData' = ld.prData
                    /\ SortAndRespond(ld.prData, order, rq, <<>>)
               ELSE IF UseBatch(githubToken, toFetch)
               THEN /\ cache' = ld.cache
                    /\ stored' = ld.stored
                    /\ prData' = ld.prData
                    /\ req' = rq
                    /\ trace' = <<Ev("batch", toFetch, TRUE, "")>>
                    /\ UNCHANGED <<display, stamped, origOrder, sortLog>>
               ELSE AfterRestLoop(
                        RestLoop(engine, ld.cache, ld.stored, ld.prData, toFetch, 1, now),
                        rq, order, <<Ev("rest", toFetch, TRUE, "")>>)
    /\ UNCHANGED <<now, engine, putLog, lastOp, pageLinks, githubToken, early>>

\* the answer to the GraphQL request arrives: fetchPRDataGraphQL from line
\* 212 on, then the fallback or the sorting
GraphQLReply ==
    /\ req.pc = "graphql"
    /\ \E reply \in GraphQLReplies(Len(req.toFetch)) :
        LET p == IF GraphQLThrows(reply)
                 THEN [cache |-> cache, stored |-> stored, prData |-> prData]
                 ELSE ProcessResults(engine, cache, stored, prData,
                                     req.toFetch, reply.has, 1, now)
            tr == Append(trace,
                      Ev("batchReply",
                         NewlyStored(req.toFetch, prData, cache, p.prData, p.cache),
                         ~BatchFailed(reply), ReplyKind(reply)))
        IN  IF GraphQLThrows(reply)
            THEN AfterRestLoop(
                     RestLoop(engine, p.cache, p.stored, p.prData, req.toFetch, 1, now),
                     req, sortOrder, Append(tr, Ev("rest", req.toFetch, TRUE, "")))
            ELSE /\ cache' = p.cache
                 /\ stored' = p.stored
                 /\ prData' = p.prData
                 /\ SortAndRespond(p.prData, sortOrder, req,
                        Append(tr, Ev("subResults",
                                      SubResultIds(req.toFetch, reply.has), TRUE, "")))
    /\ UNCHANGED <<now, engine, putLog, lastOp, sortOrder, pageLinks, githubToken, early,
                   extractLog, storedOrder>>

\* the answer to the request of fetchPRDetails arrives
RestReply ==
    /\ req.pc = "rest"
    /\ \E status \in {"ok", "403", "error"} :
        LET n == req.toFetch[req.idx]
            tr == Append(trace, Ev("reply", <<n>>, status = "ok", status))
            s == setCache(engine, cache, n, ServerRecord(n), now)
            pd == PrSet(prData, n, ServerRecord(n))
        IN  IF status = "ok"
            THEN IF ~githubToken
                 THEN /\ cache' = s.cache
                      /\ stored' = s.stored
                      /\ prData' = pd
                      /\ req' = [req EXCEPT !.pc = "delay"]
                      /\ trace' = Append(tr, Ev("delay", <<>>, TRUE, ""))
                      /\ UNCHANGED <<display, stamped, origOrder, sortLog>>
                 ELSE AfterRestLoop(
                          RestLoop(engine, s.cache, s.stored, pd, req.toFetch,
                                   req.idx + 1, now),
                          req, sortOrder, tr)
            ELSE IF IsRateLimit(status)
            THEN /\ Respond(req, tr, FALSE, "rate limit")
                 /\ UNCHANGED <<cache, stored, prData, display, stamped, origOrder,
                                sortLog>>
            ELSE AfterRestLoop(
                     RestLoop(engine, cache, stored, prData, req.toFetch,
                              req.idx + 1, now),
                     req, sortOrder, tr)
    /\ UNCHANGED <<now, engine, putLog, lastOp, sortOrder, pageLinks, githubToken, early,
                   extractLog, storedOrder>>

\* the 500 ms between two requests are over
DelayDone ==
    /\ req.pc = "delay"
    /\ AfterRestLoop(
           RestLoop(engine, cache, stored, prData, req.toFetch, req.idx + 1, now),
           req, sortOrder, trace)
    /\ UNCHANGED <<now, engine, putLog, lastOp, sortOrder, pageLinks, githubToken, early,
                   extractLog, storedOrder>>

\* the page is loaded anew: a new PRSorter and its loadSettings
PageLoad ==
    /\ req.pc = "idle"
    /\ prData' = <<>>
    /\ sortOrder' = IF storedOrder = "none" THEN "default" ELSE storedOrder
    /\ cache' = loadCache(<<>>, stored)
    /\ display' = Rendered(display)
    /\ stamped' = FALSE
    /\ origOrder' = <<>>
    /\ sortLog' = [op |-> "none", before |-> <<>>]
    /\ trace' = <<>>
    /\ early' = NoEarly
    /\ UNCHANGED <<now, engine, stored, putLog, lastOp, pageLinks, githubToken,
                   extractLog, storedOrder, req>>

\* handleSortRequest has returned
Return ==
    /\ req.pc = "done"
    /\ req' = Idle
    /\ trace' = <<>>
    /\ UNCHANGED <<now, engine, cacheVars, sortVars, pageLinks, githubToken, early,
                   extractLog, storedOrder>>

Next ==
    \/ Tick
    \/ Return
    \/ WrongPageRequest
    \/ RestoreRequest
    \/ SortRequest
    \/ GraphQLReply
    \/ RestReply
    \/ DelayDone
    \/ PageLoad

Spec == Init /\ [][Next]_vars

\* every remote call returns and every timer fires: fetch resolves or
\* rejects, setTimeout calls back.  This is weak fairness of the three
\* steps; RestReply is enabled exactly while req.pc = "rest" and DelayDone
\* exactly while req.pc = "delay", and for these two the enabling condition
\* is written out.
SpecLive ==
    /\ Spec
    /\ WF_vars(GraphQLReply)
    /\ ([]<>(req.pc # "rest") \/ []<><<RestReply>>_vars)
    /\ ([]<>(req.pc # "delay") \/ []<><<DelayDone>>_vars)

----------------------------------------------------------------------------
(* Calls of handleSortRequest that overlap: the listener (lines 30-37)     *)
(* calls handleSortRequest for every message, also while an earlier call   *)
(* is suspended.  req and trace are the call whose next step is looked at, *)
(* early the other one.                                                     *)

Suspended == {"graphql", "rest", "delay"}

\* a message arrives while a call is suspended
Overtake ==
    /\ req.pc \in Suspended
    /\ early = NoEarly
    /\ early' = [req |-> req, trace |-> trace]
    /\ req' = Idle
    /\ trace' = <<>>
    /\ UNCHANGED <<now, engine, cacheVars, sortVars, pageLinks, githubToken,
                   extractLog, storedOrder>>

\* the next step is the other call's
Switch ==
    /\ early # NoEarly
    /\ req.pc \in Suspended \cup {"idle"}
    /\ req' = early.req
    /\ trace' = early.trace
    /\ early' = IF req.pc = "idle" THEN NoEarly ELSE [req |-> req, trace |-> trace]
    /\ UNCHANGED <<now, engine, cacheVars, sortVars, pageLinks, githubToken,
                   extractLog, storedOrder>>

\* a listing of up to MaxOverlapPR pull requests
InitOverlap ==
    /\ Init
    /\ Len(display) <= MaxOverlapPR

NextOverlap ==
    \/ Overtake
    \/ Switch
    \/ WrongPageRequest
    \/ RestoreRequest
    \/ SortRequest
    \/ GraphQLReply
    \/ RestReply
    \/ DelayDone
    \/ Return

SpecOverlap == InitOverlap /\ [][NextOverlap]_vars

----------------------------------------------------------------------------
(* Claims about the fetch strategies *)

\* C9: the GraphQL request is issued if and only if there is a token and
\* more than BatchThreshold identifiers are outstanding; otherwise the REST
\* requests are issued directly.
C9_Strategy ==
    /\ \A i \in 2..Len(trace) : trace[i].ev # "batch"
    /\ (trace # <<>> /\ trace[1].ev \in {"batch", "rest"}) =>
        (trace[1].ev = "batch")
            <=> (githubToken /\ Cardinality(Range(trace[1].ids)) > BatchThreshold)

\* C10: when the answer to the GraphQL request is a failure (a status that
\* is not OK, or an error list), nothing of it is stored in the record map
\* or the cache, fetchPRDataREST is called next with the very identifiers of
\* the batch and not before it, and the only failure the request may still
\* report is the rate limit of a REST request.
C10_BatchFallback ==
    \A i \in 1..Len(trace) :
        (trace[i].ev = "batchReply" /\ ~trace[i].ok) =>
            /\ trace[i].ids = <<>>
            /\ i = 2 /\ trace[1].ev = "batch"
            /\ Len(trace) > i
            /\ trace[i + 1].ev = "rest"
            /\ trace[i + 1].ids = trace[1].ids
            /\ \A j \in 1..Len(trace) :
                 /\ trace[j].ev \in {"rest", "request"} => j > i
                 /\ (trace[j].ev = "respond" /\ ~trace[j].ok) =>
                        /\ trace[j].msg = "rate limit"
                        /\ trace[j - 1].ev = "reply" /\ trace[j - 1].msg = "403"

\* C10 witness: an error list that came with data for some pull requests was
\* followed by REST requests for each identifier of the batch, and the
\* request was answered with success
C10_Witness ==
    /\ Len(trace) > 3
    /\ trace[2].ev = "batchReply" /\ trace[2].msg = "errors+data"
    /\ trace[3].ev = "rest" /\ trace[3].ids = trace[1].ids
    /\ Cardinality({j \in 1..Len(trace) : trace[j].ev = "request"})
           = Cardinality(Range(trace[1].ids))
    /\ trace[Len(trace)].ev = "respond" /\ trace[Len(trace)].ok

\* the original index of the row of pull request n among rows
OrigOf(rows, n) == (CHOOSE r \in Range(rows) : RowNumber(r) = n).orig

\* C22: the applySorting that finds rows in a listing not yet marked gives
\* each row its index at that moment and marks the listing; from then on no
\* step changes the original index of a row that has one, and no
\* applySorting or restoreDefaultOrder gives one to a row that has none.
C22_StampedOnce ==
    [][/\ \A i \in 1..Len(display) :
             OrigOf(display', RowNumber(display[i])) =
                 IF display[i].orig >= 0 THEN display[i].orig
                 ELSE IF sortLog'.op = "sort" /\ ~stamped THEN i - 1
                 ELSE display[i].orig
       /\ (sortLog'.op = "sort" /\ display # <<>>) => stamped'
       /\ stamped => stamped']_vars

\* C22 witness: an applySorting on a marked listing left a row that was
\* added later without original index and left the index of a row that is
\* no longer at that place
C22_Witness ==
    /\ sortLog.op = "sort" /\ stamped
    /\ RowIds(display) # sortLog.before
    /\ \E i \in 1..Len(display) : display[i].orig < 0
    /\ \E i \in 1..Len(display) : display[i].orig >= 0 /\ display[i].orig # i - 1

\* the original position restoreDefaultOrder is to use for a row
ImplicitPosition(row) == IF row.orig >= 0 THEN row.orig ELSE 0

\* C23: restoreDefaultOrder keeps the rows and puts them in the order of
\* their original position, a row that was never stamped counting as
\* position 0, and rows of equal position in the order they had before; on
\* a listing that was never sorted it changes nothing.
C23_RestoreUnstamped ==
    [][sortLog'.op = "restore" =>
           /\ Len(display') = Len(display)
           /\ Range(display') = Range(display)
           /\ \A i, j \in 1..Len(display') :
                 i < j =>
                     /\ ImplicitPosition(display'[i]) <= ImplicitPosition(display'[j])
                     /\ ImplicitPosition(display'[i]) = ImplicitPosition(display'[j]) =>
                            PlaceOf(RowIds(display), RowNumber(display'[i]))
                                < PlaceOf(RowIds(display), RowNumber(display'[j]))
           /\ ~stamped => display' = display]_vars

\* C23 witness: a restore moved a row that was never stamped ahead of a
\* stamped row of a later position and left it behind the row stamped 0
C23_Witness ==
    /\ sortLog.op = "restore"
    /\ RowIds(display) # sortLog.before
    /\ \E i, j, k \in 1..Len(display) :
          /\ i < j /\ j < k
          /\ display[i].orig = 0
          /\ display[j].orig < 0
          /\ display[k].orig > 0
          /\ PlaceOf(sortLog.before, RowNumber(display[k]))
                 < PlaceOf(sortLog.before, RowNumber(display[j]))

----------------------------------------------------------------------------
(* Claims about the outcome of a request *)

\* the rows of the listing whose pull request has no record
Unfetched(rows) == {r \in Range(rows) : ~PrHas(prData, RowNumber(r))}

\* C11: when the answer to the GraphQL request is a success, that request is
\* the only remote request of the run; every identifier of the batch with a
\* sub-result has its record in the record map and in the cache (and in the
\* stored text), every identifier without one has neither, no REST request
\* follows and the response is a success; the rows without a record compare
\* equal to every row, carry no badge and keep their order among themselves.
C11_BatchPartial ==
    (Len(trace) >= 2 /\ trace[1].ev = "batch"
        /\ trace[2].ev = "batchReply" /\ trace[2].ok) =>
        /\ Len(trace) = 4
        /\ trace[3].ev = "subResults"
        /\ trace[4] = Ev("respond", <<>>, TRUE, sortOrder)
        /\ \A n \in Range(trace[1].ids) :
              IF n \in Range(trace[3].ids)
              THEN /\ PrGet(prData, n) = ServerRecord(n)
                   /\ MapHas(cache, n)
                   /\ MapGet(cache, n) = [data |-> ServerRecord(n), timestamp |-> now]
                   /\ MapHas(loadCache(<<>>, stored), n)
              ELSE /\ ~PrHas(prData, n)
                   /\ ~MapHas(cache, n)
        /\ \A a \in Unfetched(display) :
              /\ a.badge = "none"
              /\ \A r \in Range(display) :
                    /\ SortCompare(display, prData, sortOrder)[<<a, r>>] = 0
                    /\ SortCompare(display, prData, sortOrder)[<<r, a>>] = 0
              /\ \A b \in Unfetched(display) :
                    PlaceOf(sortLog.before, RowNumber(a))
                            < PlaceOf(sortLog.before, RowNumber(b))
                        => PlaceOf(RowIds(display), RowNumber(a))
                               < PlaceOf(RowIds(display), RowNumber(b))

\* C11 witness: a batch for three pull requests was answered with the
\* record of one of them, and the request was answered with success
C11_Witness ==
    /\ Len(trace) = 4
    /\ trace[1].ev = "batch" /\ Cardinality(Range(trace[1].ids)) = 3
    /\ trace[2].ev = "batchReply" /\ trace[2].ok
    /\ Cardinality(Range(trace[3].ids)) = 1
    /\ Cardinality(Unfetched(display)) = 2
    /\ trace[4].ev = "respond" /\ trace[4].ok

\* the identifiers whose REST request was answered with a record before
\* event i of the history
FetchedBefore(i) ==
    {trace[j].ids[1] : j \in {k \in 1..(i - 1) : trace[k].ev = "reply" /\ trace[k].ok}}

\* C12: once a REST request is answered with status 403, the run makes no
\* further request: the next and last event is the response, a failure
\* whose message contains 'rate limit'; every record a REST request of the
\* run had fetched before is in the cache and in the stored text.
C12_RateLimitAbort ==
    \A i \in 1..Len(trace) :
        (trace[i].ev = "reply" /\ trace[i].msg = "403") =>
            /\ Len(trace) = i + 1
            /\ trace[i + 1].ev = "respond"
            /\ ~trace[i + 1].ok
            /\ SuggestsToken(ResponseMessage(trace[i + 1].msg))
            /\ \A n \in FetchedBefore(i) :
                  /\ MapHas(cache, n)
                  /\ MapGet(cache, n).data = ServerRecord(n)
                  /\ MapHas(loadCache(<<>>, stored), n)

\* C12 witness: the third REST request of a run was answered with 403 after
\* two records had been fetched, and the response was the failure
C12_Witness ==
    /\ Len(trace) > 2
    /\ trace[Len(trace)].ev = "respond" /\ ~trace[Len(trace)].ok
    /\ trace[Len(trace) - 1].ev = "reply" /\ trace[Len(trace) - 1].msg = "403"
    /\ Cardinality(FetchedBefore(Len(trace))) = 2
    /\ \A n \in FetchedBefore(Len(trace)) : MapHas(cache, n)

\* C13: when a sort request is answered with the rate-limit failure, the
\* rows of the records its REST requests had fetched before are in the
\* requested order among themselves: tier 1 before tier 2 for new-first,
\* tier 2 before tier 1 for existing-first.
C13_SortedAfterAbort ==
    (/\ trace # <<>>
     /\ trace[Len(trace)].ev = "respond"
     /\ trace[Len(trace)].msg = "rate limit") =>
        \A a, b \in FetchedBefore(Len(trace)) :
            (IF sortOrder = "new-first"
             THEN TierOfRow(a) < TierOfRow(b)
             ELSE TierOfRow(a) > TierOfRow(b))
                => PlaceOf(RowIds(display), a) < PlaceOf(RowIds(display), b)

\* the places of the list ids after place i whose identifier the cache m
\* cannot serve at time t
StillToRequest(m, ids, i, t) ==
    {p \in (i + 1)..Len(ids) : ~(MapHas(m, ids[p]) /\ IsFresh(MapGet(m, ids[p]), t))}

\* C14: when a REST request fails with anything but the rate-limit signal,
\* the failure stores no record for its identifier and the run goes on with
\* the next identifier of the list that the cache cannot serve, or, when
\* there is none, sorts and answers with success; and a failure response is
\* only ever the one for the wrong page or the one for the rate limit.
C14_FailuresAbsorbed ==
    [][/\ (/\ req.pc = "rest"
           /\ Len(trace') > Len(trace)
           /\ trace'[Len(trace) + 1].ev = "reply"
           /\ trace'[Len(trace) + 1].msg = "error") =>
              LET n == req.toFetch[req.idx]
                  left == StillToRequest(cache, req.toFetch, req.idx, now)
                  last == trace'[Len(trace')]
              IN  /\ Len(trace') = Len(trace) + 2
                  /\ ~PrHas(prData', n)
                  /\ ~MapHas(cache', n)
                  /\ IF left = {}
                     THEN /\ req'.pc = "done"
                          /\ last = Ev("respond", <<>>, TRUE, sortOrder)
                          /\ sortLog'.op = "sort"
                     ELSE LET p == CHOOSE q \in left : \A o \in left : q <= o
                          IN  /\ req' = [req EXCEPT !.idx = p]
                              /\ last = Ev("request", <<req.toFetch[p]>>, TRUE, "")
                              /\ \A q \in (req.idx + 1)..(p - 1) :
                                    PrGet(prData', req.toFetch[q])
                                        = MapGet(cache, req.toFetch[q]).data
       /\ \A i \in 1..Len(trace') :
             (trace'[i].ev = "respond" /\ ~trace'[i].ok) =>
                 \/ trace'[i].msg = "wrong page" /\ i = 1
                 \/ /\ trace'[i].msg = "rate limit"
                    /\ trace'[i - 1].ev = "reply" /\ trace'[i - 1].msg = "403"]_vars

\* C14 witness: a REST request failed, the request for the next pull
\* request was made and answered, and the response was a success although
\* the pull request of the failed request has no record
C14_Witness ==
    /\ Len(trace) > 4
    /\ trace[Len(trace)].ev = "respond" /\ trace[Len(trace)].ok
    /\ \E i \in 1..Len(trace) :
          /\ trace[i].ev = "reply" /\ trace[i].msg = "error"
          /\ trace[i + 1].ev = "request"
          /\ trace[i + 1].ids # trace[i].ids
          /\ ~PrHas(prData, trace[i].ids[1])

\* C15: a request for the default order on a listing page makes no remote
\* request and leaves the cache, the stored text and the record map as they
\* are, expired entries included; it puts the rows in the order of their
\* original index, rows of equal index in the order they had, and answers
\* with success.
C15_DefaultShortCircuit ==
    [][(/\ req.pc = "idle"
        /\ req'.pc = "done"
        /\ req'.order = "default"
        /\ IsListingPage(req'.url)) =>
           /\ trace' = <<Ev("respond", <<>>, TRUE, "restored")>>
           /\ cache' = cache
           /\ stored' = stored
           /\ prData' = prData
           /\ Len(display') = Len(display)
           /\ Range(display') = Range(display)
           /\ \A i, j \in 1..Len(display') :
                 i < j =>
                     /\ OriginalIndex(display'[i]) <= OriginalIndex(display'[j])
                     /\ OriginalIndex(display'[i]) = OriginalIndex(display'[j]) =>
                            PlaceOf(RowIds(display), RowNumber(display'[i]))
                                < PlaceOf(RowIds(display), RowNumber(display'[j]))]_vars

\* C15 witness: a request for the default order was answered with success;
\* it moved rows that a sort had reordered, and the cache holds an entry
\* that has expired
C15_Witness ==
    /\ req.pc = "done" /\ req.order = "default"
    /\ trace = <<Ev("respond", <<>>, TRUE, "restored")>>
    /\ sortLog.op = "restore"
    /\ sortLog.before # RowIds(display)
    /\ \E i \in 1..Len(cache) : IsExpired(cache[i].val, now)

\* C16: a request that arrives on a page whose address lacks 'github.com'
\* or '/pulls' is answered in the same step with a failure, whatever order
\* it asks for; no remote request is made and the sort order in memory and
\* in storage, the cache, the stored text, the record map and the rows are
\* as before.
C16_WrongContext ==
    [][(/\ req.pc = "idle"
        /\ req'.pc = "done"
        /\ ~(req'.url.github /\ req'.url.pulls)) =>
           /\ trace' = <<Ev("respond", <<>>, FALSE, "wrong page")>>
           /\ sortOrder' = sortOrder
           /\ storedOrder' = storedOrder
           /\ cache' = cache
           /\ stored' = stored
           /\ prData' = prData
           /\ display' = display
           /\ stamped' = stamped]_vars

\* C16 witness: a request for another order than the current one was
\* refused on a page that is no listing, with records in the cache and the
\* record map and rows that a sort has reordered
C16_Witness ==
    /\ req.pc = "done"
    /\ ~(req.url.github /\ req.url.pulls)
    /\ trace = <<Ev("respond", <<>>, FALSE, "wrong page")>>
    /\ req.order # sortOrder
    /\ sortOrder # "default"
    /\ cache # <<>>
    /\ DOMAIN prData # {}
    /\ stamped /\ RowIds(display) # origOrder

\* C17: when a sort request starts and every identifier of the listing is
\* in the record map or has a cache entry that has not expired, the run
\* makes no remote request and calls neither fetch strategy: it sorts and
\* answers at once, and the record map then holds for every identifier the
\* record it held before or else the record of the cache entry.
C17_AllCachedNoFetch ==
    [][LET all == AllPRNumbers(DocLinks(pageLinks, display), githubToken)
       IN  (/\ req.pc = "idle"
            /\ req'.pc # "idle"
            /\ req'.order # "default"
            /\ req'.url.github /\ req'.url.pulls
            /\ \A n \in Range(all) :
                  \/ PrHas(prData, n)
                  \/ MapHas(cache, n) /\ ~IsExpired(MapGet(cache, n), now)) =>
               /\ req'.pc = "done"
               /\ trace' = <<Ev("respond", <<>>, TRUE, req'.order)>>
               /\ \A n \in Range(all) :
                     PrGet(prData', n) = IF PrHas(prData, n) THEN PrGet(prData, n)
                                         ELSE MapGet(cache, n).data]_vars

\* C17 witness: a sort request for a listing of two or more pull requests
\* was answered without any request, all records being in cache entries
\* made earlier
C17_Witness ==
    /\ req.pc = "done" /\ req.order # "default"
    /\ trace = <<Ev("respond", <<>>, TRUE, req.order)>>
    /\ Cardinality(Range(extractLog.ids)) >= 2
    /\ \A n \in Range(extractLog.ids) :
          /\ MapHas(cache, n)
          /\ MapGet(cache, n).timestamp < now
          /\ PrGet(prData, n) = MapGet(cache, n).data

\* C19: without a token, a delay lies between any two REST requests of a
\* run, whether the earlier one was answered with a record or failed; with
\* a token a run has no delay.
C19_Spacing ==
    /\ githubToken => \A i \in 1..Len(trace) : trace[i].ev # "delay"
    /\ ~githubToken =>
          \A i, j \in 1..Len(trace) :
              (i < j /\ trace[i].ev = "request" /\ trace[j].ev = "request") =>
                  \E k \in (i + 1)..(j - 1) : trace[k].ev = "delay"

\* C20: while a call of handleSortRequest is suspended at a request or a
\* delay, no other call has got past the page test: a call that arrives in
\* the meantime has not stored its order, fetched, sorted or restored
\* before the suspended call has sent its response.
C20_SingleFlight ==
    early # NoEarly =>
        \/ req.pc = "idle"
        \/ req.pc = "done" /\ ~IsListingPage(req.url)

\* C27: a request for new-first or existing-first that is answered with
\* success has had the rows sorted by the comparator of its own order, and
\* its message names that order, also when another request was received
\* while it waited for a reply.
C27_AppliedIsRequested ==
    [][(/\ req'.pc = "done"
        /\ req.pc # "done"
        /\ req'.order # "default"
        /\ trace'[Len(trace')].ev = "respond"
        /\ trace'[Len(trace')].ok) =>
           /\ trace'[Len(trace')].msg = req'.order
           /\ sortOrder' = req'.order
           /\ display' = applySorting(engine, display, stamped, prData',
                                      req'.order).display]_vars

\* the events of the history that are a sendResponse
Responses == {i \in 1..Len(trace) : trace[i].ev = "respond"}

\* C21: when every remote call returns and every timer fires, a request
\* that is waiting for one of them is answered in the end; while it runs it
\* has sent no response, and when it is over it has sent exactly one, as
\* the last thing it did, with a success flag and a message.
C21_OneResponse ==
    /\ [](/\ req.pc \in Suspended => Responses = {}
          /\ req.pc = "done" =>
                /\ Responses = {Len(trace)}
                /\ trace[Len(trace)].ok \in BOOLEAN
                /\ ResponseMessage(trace[Len(trace)].msg) # <<>>)
    /\ (req.pc \in Suspended) ~> (req.pc = "done")

\* C21 witness: a request whose batch failed and whose fallback was stopped
\* by the rate limit after a record had been fetched has its one response
C21_Witness ==
    /\ req.pc = "done"
    /\ Len(trace) > 5
    /\ trace[2].ev = "batchReply" /\ ~trace[2].ok
    /\ \E i \in 1..Len(trace) : trace[i].ev = "reply" /\ trace[i].ok
    /\ trace[Len(trace)] = Ev("respond", <<>>, FALSE, "rate limit")
    /\ Cardinality(Responses) = 1

\* C25: when a sort request starts, every identifier of the listing that
\* has no cache entry with now - timestamp < CacheExpiry is among the
\* identifiers the run sets out to fetch, so that no record older than the
\* expiry time is sorted by without a request for it.
C25_FreshRecords ==
    [][LET all == AllPRNumbers(DocLinks(pageLinks, display), githubToken)
       IN  (/\ req.pc = "idle"
            /\ req'.pc # "idle"
            /\ req'.order # "default"
            /\ req'.url.github /\ req'.url.pulls) =>
               \A n \in Range(all) :
                   ~(MapHas(cache, n) /\ now - MapGet(cache, n).timestamp < CacheExpiry)
                       => /\ req'.pc \in Suspended
                          /\ n \in Range(req'.toFetch)]_vars

----------------------------------------------------------------------------
(* Claims about the stored cache *)

\* C24: clearExpiredCache at time now leaves exactly the entries with
\* now - timestamp < CacheExpiry, each with its record and timestamp and in
\* the order they had, and the stored text holds the same; a getFromCache
\* at the same time returns the record of every entry that is left and
\* deletes nothing.
C24_SweepExact ==
    [][lastOp'.op = "sweep" =>
           /\ cache' = SelectSeq(cache, LAMBDA e : now - e.val.timestamp < CacheExpiry)
           /\ lastOp'.deleted = Len(cache) - Len(cache')
           /\ lastOp'.deleted > 0 => stored'.text = JSONStringify(cache')
           /\ \A i \in 1..Len(cache') :
                 LET g == getFromCache(engine, cache', stored', cache'[i].key, now)
                 IN  /\ g.ret = cache'[i].val.data
                     /\ g.cache = cache']_vars

\* C24 witness: a sweep deleted the entry whose age was exactly CacheExpiry
\* and kept an entry one tick younger
C24_Witness ==
    /\ lastOp.op = "sweep" /\ lastOp.deleted = 1
    /\ putLog.t >= 0 /\ now - putLog.t = CacheExpiry
    /\ ~MapHas(cache, WatchedKey)
    /\ \E i \in 1..Len(cache) : now - cache[i].val.timestamp = CacheExpiry - 1

\* C26: when setCache(i, r) returns, the entry of i is in the cache and in
\* the stored text, also when the save trimmed the cache, when entries
\* have equal timestamps and when i was in the cache before.
C26_WrittenSurvives ==
    (lastOp.op = "set" /\ lastOp.key = WatchedKey) =>
        /\ MapHas(cache, WatchedKey)
        /\ MapHas(loadCache(<<>>, stored), WatchedKey)

\* C18: whenever a cache operation is over (setCache, getFromCache with or
\* without its delete, clearExpiredCache, a save that trimmed the cache, a
\* load), the stored text parses to the very entries of the cache in
\* memory, in the same order; while nothing was ever stored the cache is
\* empty.  A load therefore yields the cache that was saved.
C18_PersistenceMirror ==
    IF stored.present
    THEN MapFromEntries(JSONParse(stored.text), <<>>) = cache
    ELSE cache = <<>>

\* C18 witness: a setCache made the save trim the cache; a record without
\* author_association is in the cache and in the stored text, where the
\* property is left out
C18_Witness ==
    /\ lastOp.op = "set" /\ lastOp.pre # <<>>
    /\ stored.present
    /\ \E i \in 1..Len(cache) :
          /\ cache[i].val.data.author_association = "undefined"
          /\ stored.text[i][1] = cache[i].key
          /\ stored.text[i][3] = <<>>

====
